---- MODULE Spec2Model ----
(***************************************************************************)
(* Model of src/utils/checkin_token_device.py: the OAuth 2.0 device-flow   *)
(* command line helper (new / refresh / revoke), its poll loop and the     *)
(* token file it writes.                                                   *)
(*                                                                         *)
(* A process is one invocation of the script.  The file system, the token  *)
(* endpoint's answers, the duration of each request, the umask and the     *)
(* process interrupt are the environment and are chosen nondeterministically. *)
(***************************************************************************)
EXTENDS Integers, Sequences, FiniteSets, TLC

(***************************************************************************)
(* Bounds of the model.                                                    *)
(***************************************************************************)
\* timeout_seconds handed to poll_token_endpoint.  run_device_flow passes 900
\* (line 211); the loop is followed for a smaller budget, which the deadline
\* check of line 88 treats the same way.
MaxTimeout == 45
\* longest time, in seconds, one token request may take (requests' timeout=30
\* allows up to 30 and more)
MaxLatency == 2
\* largest interval the device-authorization response suggests
MaxServerInterval == 33

(***************************************************************************)
(* Program constants.                                                      *)
(***************************************************************************)
MinInterval == 5
FallbackInterval == 5
DefaultInterval == 5
SlowDownStep == 5
MaxInterval == 30

Procs == {1, 2}
\* the invocation whose whole run is followed
Main == 1

(***************************************************************************)
(* Python values.  A dict is the sequence of its (key, value) pairs in     *)
(* insertion order.                                                        *)
(***************************************************************************)
None == "None"

Keys(d) == {d[i][1] : i \in 1..Len(d)}
Has(d, k) == k \in Keys(d)
Index(d, k) == CHOOSE i \in 1..Len(d) : d[i][1] = k
\* d.get(k, default)
GetOr(d, k, default) == IF Has(d, k) THEN d[Index(d, k)][2] ELSE default
\* d[k] = v
SetItem(d, k, v) ==
    IF Has(d, k) THEN [d EXCEPT ![Index(d, k)] = <<k, v>>]
    ELSE Append(d, <<k, v>>)
\* d.update(e)
RECURSIVE Update(_, _)
Update(d, e) ==
    IF e = <<>> THEN d
    ELSE Update(SetItem(d, Head(e)[1], Head(e)[2]), Tail(e))
Min(a, b) == IF a < b THEN a ELSE b
Max(a, b) == IF a > b THEN a ELSE b

(***************************************************************************)
(* What the provider may answer.                                           *)
(***************************************************************************)
TokA == << <<"access_token", "a1">>, <<"refresh_token", "r1">>,
           <<"expires_in", "3600">> >>
TokB == << <<"expires_in", "300">>, <<"access_token", "a2">> >>
TokenBodies == {TokA, TokB}

\* what the token file may hold before the run
TokOld == << <<"access_token", "a0">>, <<"refresh_token", "r0">>,
             <<"scope", "openid">> >>
TokNoRt == << <<"access_token", "a0">> >>

ErrorBody(e) == << <<"error", e>> >>
PollErrors == {"authorization_pending", "slow_down", "access_denied",
               "expired_token", "invalid_grant", "server_error"}
\* A response: its status, whether resp.json() parses, and the parsed body.
NotJson == [json |-> FALSE, body |-> <<>>]
Json(d) == [json |-> TRUE, body |-> d]
Response(statuses, contents) ==
    {[status |-> s, json |-> c.json, body |-> c.body] :
        s \in statuses, c \in contents}

PollResponses ==
    Response({200}, {Json(t) : t \in TokenBodies} \cup {NotJson})
    \cup Response({400}, {Json(ErrorBody(e)) : e \in PollErrors})
    \cup Response({401}, {Json(ErrorBody("authorization_pending"))})
    \cup Response({400}, {Json(<< <<"message", "bad">> >>)})
    \cup Response({204, 502}, {NotJson})

RefreshResponses ==
    Response({200}, {Json(t) : t \in TokenBodies} \cup {NotJson})
    \cup Response({400}, {Json(ErrorBody("invalid_grant"))})
    \cup Response({502}, {NotJson})

ServerIntervals == {0, 5, 27, MaxServerInterval}
DeviceBodies ==
    { << <<"device_code", "d1">>, <<"user_code", "U1">> >> }
    \cup { << <<"device_code", "d1">>, <<"interval", i>> >> : i \in ServerIntervals }
DeviceResponses ==
    Response({200}, {Json(d) : d \in DeviceBodies} \cup {NotJson})
    \cup Response({400, 503}, {Json(ErrorBody("invalid_client")), NotJson})
    \* a redirect status that requests does not follow (no Location header)
    \cup Response({302}, {Json(d) : d \in DeviceBodies} \cup {NotJson})

RevokeStatuses == {200, 204, 400, 503}

(***************************************************************************)
(* Files.  A file has an identity (the process that created it; 0 for a    *)
(* file that was there before), the chunks written to it so far, and its   *)
(* permission bits.  json.dump hands the text to the file in pieces; a     *)
(* piece is one "key": value member, and the closing brace with the final  *)
(* newline is the last piece.                                              *)
(***************************************************************************)
DEFAULT_TOKENS_PATH == "tokens_egi.json"

END == <<"}">>
HOLE == <<"?">>

OwnerOnly == {"ur", "uw"}
AllRW == {"ur", "uw", "gr", "gw", "or", "ow"}
\* umask 022 and umask 077
Umasks == { {"gw", "ow"}, {"gr", "gw", "or", "ow"} }

NoFile == [id |-> -1, data |-> <<>>, mode |-> {}]
Exists(f) == f.id # -1

\* json.dump(tokens, f, indent=2); f.write("\n")
Serialize(d) == Append(d, END)
\* a complete JSON object: members, then the closing piece
WellFormed(data) ==
    /\ Len(data) >= 1
    /\ data[Len(data)] = END
    /\ \A i \in 1..(Len(data) - 1) : Len(data[i]) = 2
\* a loader that keeps the fields it knows and drops the others
KnownFields == {"access_token", "refresh_token", "id_token", "expires_in",
                "refresh_expires_in"}
ParseKnownFields(data) ==
    Update(<<>>, SelectSeq(SubSeq(data, 1, Len(data) - 1),
                           LAMBDA m : m[1] \in KnownFields))

\* json.load(f) of a well-formed text: members in order, the last value of a
\* repeated key
Parse(data) == Update(<<>>, SubSeq(data, 1, Len(data) - 1))

\* the text after a write of chunk c at position pos (1-based)
RECURSIVE Pad(_, _)
Pad(data, n) == IF Len(data) >= n THEN data ELSE Pad(Append(data, HOLE), n)
WriteAt(data, pos, c) ==
    IF pos <= Len(data) THEN [data EXCEPT ![pos] = c]
    ELSE Append(Pad(data, pos - 1), c)

\* a save that writes the target in place
TmpPathInPlace(path) == path

\* tmp = path + ".tmp"
TmpPath(path) == path \o ".tmp"
Paths == {DEFAULT_TOKENS_PATH, TmpPath(DEFAULT_TOKENS_PATH)}

NoFd == [id |-> -1, pos |-> 0]

(***************************************************************************)
(* The command line.                                                       *)
(***************************************************************************)
Arg(action, token, access_token) ==
    [action |-> action, file |-> DEFAULT_TOKENS_PATH, token |-> token,
     access_token |-> access_token]
ArgSets ==
    {Arg("new", None, None)}
    \cup {Arg("refresh", t, None) : t \in {None, "r9"}}
    \cup {Arg("revoke", t, a) : t \in {None, "r9"}, a \in {None, "a9"}}
NoArgs == Arg("none", None, None)

VARIABLES
    pc,                 \* where each invocation stands
    args,               \* its parsed command line
    tokens,             \* its local variable tokens
    fd,                 \* the file it holds open in save_tokens
    exit_code,          \* -1 while it runs
    err,                \* the exception that ended it, "" if none
    fs,                 \* path -> file
    http,               \* requests sent so far, per endpoint
    interval,           \* run_device_flow's interval
    current_interval,   \* poll_token_endpoint's current_interval
    began,              \* poll_token_endpoint's began
    now,                \* the clock, time.time()
    resp,               \* the last response received
    took,               \* the seconds the last token request took
    retries,            \* times the poll loop went round (line 125)
    fs0                 \* the file system before the run

procVars == <<pc, args, tokens, fd, exit_code, err>>
pollVars == <<interval, current_interval, began, now, resp, took, retries>>
vars == <<pc, args, tokens, fd, exit_code, err, fs, http, interval,
          current_interval, began, now, resp, took, retries, fs0>>

NoResp == [status |-> 0, json |-> FALSE, body |-> <<>>]

\* a script that reports every failure with status 1
ExitOneForAnyFailure(p, code, e) ==
    /\ pc' = [pc EXCEPT ![p] = "done"]
    /\ exit_code' = [exit_code EXCEPT ![p] = IF code = 0 THEN 0 ELSE 1]
    /\ err' = [err EXCEPT ![p] = e]

\* the process ends: sys.exit(code), or the end of the script
Exit(p, code, e) ==
    /\ pc' = [pc EXCEPT ![p] = "done"]
    /\ exit_code' = [exit_code EXCEPT ![p] = code]
    /\ err' = [err EXCEPT ![p] = e]

Goto(p, label) ==
    /\ pc' = [pc EXCEPT ![p] = label]
    /\ UNCHANGED <<exit_code, err>>

(***************************************************************************)
(* save_tokens(tokens, path), lines 134-141, one action per system call.   *)
(***************************************************************************)
\* open(tmp, "w"): creates the file with the umask's bits, or truncates the
\* one that is there and keeps its bits
OpenW(files, name, p, umask) ==
    [files EXCEPT ![name] =
        IF Exists(@) THEN [@ EXCEPT !.data = <<>>]
        ELSE [id |-> p, data |-> <<>>, mode |-> AllRW \ umask]]

\* a write through an open file reaches the file wherever it is now linked
WriteFd(files, f, c) ==
    [n \in Paths |->
        IF Exists(files[n]) /\ files[n].id = f.id
        THEN [files[n] EXCEPT !.data = WriteAt(@, f.pos, c)]
        ELSE files[n]]

\* os.chmod(name, 0o600)
Chmod(files, name) == [files EXCEPT ![name].mode = OwnerOnly]

\* a rename that loses the file
ReplaceDropsFile(files, src, dst) == [files EXCEPT ![src] = NoFile]

\* os.replace(src, dst)
Replace(files, src, dst) == [files EXCEPT ![dst] = files[src], ![src] = NoFile]

save_open(p) ==
    /\ pc[p] = "save_open"
    /\ \E umask \in Umasks :
          LET tmp == TmpPath(args[p].file) IN
          /\ fs' = OpenW(fs, tmp, p, umask)
          /\ fd' = [fd EXCEPT ![p] = [id |-> fs'[tmp].id, pos |-> 1]]
    /\ Goto(p, "save_write")
    /\ UNCHANGED <<args, tokens, http, pollVars, fs0>>

save_write(p) ==
    /\ pc[p] = "save_write"
    /\ LET text == Serialize(tokens[p]) IN
       IF fd[p].pos <= Len(text)
       THEN /\ fs' = WriteFd(fs, fd[p], text[fd[p].pos])
            /\ fd' = [fd EXCEPT ![p].pos = @ + 1]
            /\ Goto(p, "save_write")
       ELSE \* the with block ends: the file is closed
            /\ fd' = [fd EXCEPT ![p] = NoFd]
            /\ Goto(p, "save_chmod")
            /\ UNCHANGED fs
    /\ UNCHANGED <<args, tokens, http, pollVars, fs0>>

save_chmod(p) ==
    /\ pc[p] = "save_chmod"
    /\ LET tmp == TmpPath(args[p].file) IN
       IF Exists(fs[tmp])
       THEN /\ fs' = Chmod(fs, tmp)
            /\ Goto(p, "save_replace")
       ELSE /\ Exit(p, 1, "FileNotFoundError")
            /\ UNCHANGED fs
    /\ UNCHANGED <<args, tokens, fd, http, pollVars, fs0>>

save_replace(p) ==
    /\ pc[p] = "save_replace"
    /\ LET tmp == TmpPath(args[p].file) IN
       IF Exists(fs[tmp])
       THEN /\ fs' = Replace(fs, tmp, args[p].file)
            /\ Exit(p, 0, "")
       ELSE /\ Exit(p, 1, "FileNotFoundError")
            /\ UNCHANGED fs
    /\ UNCHANGED <<args, tokens, fd, http, pollVars, fs0>>

(***************************************************************************)
(* revoke, lines 325-342 and revoke_token, lines 233-251.                  *)
(***************************************************************************)
\* Python's truth value of an optional string
Truthy(v) == v # None /\ v # ""

\* a check that takes every 2xx status for a success
RevokeOkAny2xx(status) == status >= 200 /\ status < 300

\* resp.status_code == 200, line 336
RevokeOk(status) == status = 200

revoke(p) ==
    /\ pc[p] = "main"
    /\ args[p].action = "revoke"
    /\ IF ~Truthy(args[p].token) \/ ~Truthy(args[p].access_token)
       THEN /\ Exit(p, 2, "")
            /\ UNCHANGED <<http, resp>>
       ELSE \E status \in RevokeStatuses :
            /\ http' = [http EXCEPT !.revocation = @ + 1]
            /\ resp' = [status |-> status, json |-> FALSE, body |-> <<>>]
            /\ IF RevokeOk(status) THEN Exit(p, 0, "")
                                   ELSE Exit(p, 1, "Failed to revoke token")
    /\ UNCHANGED <<args, tokens, fd, fs, interval, current_interval, began,
                   now, took, retries, fs0>>

(***************************************************************************)
(* refresh, lines 344-364.                                                 *)
(***************************************************************************)
\* load_tokens(args.file) and the check of its refresh_token, lines 352-357
load_tokens(p) ==
    /\ pc[p] = "main"
    /\ args[p].action = "refresh"
    /\ ~Truthy(args[p].token)
    /\ LET f == fs[args[p].file] IN
       IF ~Exists(f) THEN
            /\ Exit(p, 1, "FileNotFoundError")
            /\ UNCHANGED tokens
       ELSE IF ~WellFormed(f.data) THEN
            /\ Exit(p, 1, "JSONDecodeError")
            /\ UNCHANGED tokens
       ELSE /\ tokens' = [tokens EXCEPT ![p] = Parse(f.data)]
            /\ IF ~Truthy(GetOr(tokens'[p], "refresh_token", None))
               THEN Exit(p, 2, "")
               ELSE Goto(p, "refresh_post")
    /\ UNCHANGED <<args, fd, fs, http, pollVars, fs0>>

\* a status check that lets the 4xx answers through
RefreshOkBelow500(status) == status < 500

\* status check of refresh_with_rt, line 169
RefreshOk(status) == status = 200

\* what the refresh branch leaves in tokens, lines 347 and 361
Refreshed(old, new, token) ==
    IF Truthy(token) THEN new ELSE Update(old, new)

\* refresh_with_rt, lines 149-175, and what its caller does with the result
refresh_with_rt(p) ==
    /\ args[p].action = "refresh"
    /\ \/ pc[p] = "refresh_post"
       \/ pc[p] = "main" /\ Truthy(args[p].token)
    /\ \E r \in RefreshResponses :
          /\ http' = [http EXCEPT !.refresh = @ + 1]
          /\ resp' = r
          /\ IF ~RefreshOk(r.status) THEN
                  /\ Exit(p, 1, "Refresh failed")
                  /\ UNCHANGED tokens
             ELSE IF ~r.json THEN
                  /\ Exit(p, 1, "JSONDecodeError")
                  /\ UNCHANGED tokens
             ELSE /\ tokens' = [tokens EXCEPT ![p] =
                                    Refreshed(@, r.body, args[p].token)]
                  /\ Goto(p, "save_open")
    /\ UNCHANGED <<args, fd, fs, interval, current_interval, began, now, took,
                   retries, fs0>>

(***************************************************************************)
(* new: run_device_flow, lines 178-230.                                    *)
(***************************************************************************)
\* resp.raise_for_status() raises for the 4xx and 5xx statuses
RaisesForStatus(status) == status >= 400 /\ status < 600

\* start_device_flow, lines 48-72, and lines 187-188 of run_device_flow
start_device_flow(p) ==
    /\ pc[p] = "main"
    /\ args[p].action = "new"
    /\ \E r \in DeviceResponses :
          /\ http' = [http EXCEPT !.device = @ + 1]
          /\ resp' = r
          /\ IF RaisesForStatus(r.status) THEN
                  /\ Exit(p, 1, "HTTPError")
                  /\ UNCHANGED interval
             ELSE IF ~r.json THEN
                  /\ Exit(p, 1, "JSONDecodeError")
                  /\ UNCHANGED interval
             ELSE IF ~Has(r.body, "device_code") THEN
                  /\ Exit(p, 1, "KeyError")
                  /\ UNCHANGED interval
             ELSE /\ interval' = GetOr(r.body, "interval", DefaultInterval)
                  /\ Goto(p, "poll_begin")
    /\ UNCHANGED <<args, tokens, fd, fs, current_interval, began, now, took,
                   retries, fs0>>

(***************************************************************************)
(* poll_token_endpoint, lines 75-131.                                      *)
(***************************************************************************)
timeout_seconds == MaxTimeout

\* a loop that takes the server's interval as it comes
InitialIntervalNoFloor(i) == i

\* max(5, int(interval or 5)), line 85
InitialInterval(i) ==
    Max(MinInterval, IF i # 0 THEN i ELSE FallbackInterval)

\* a deadline checked ten seconds late
TimedOutLate(t, b) == t - b > timeout_seconds + 10

\* time.time() - began > timeout_seconds, line 88
TimedOut(t, b) == t - b > timeout_seconds

\* a loop that backs off on every retry
NextIntervalAnyRetry(e, cur) == Min(cur + SlowDownStep, MaxInterval)

\* lines 122-123
NextInterval(e, cur) ==
    IF e = "slow_down" THEN Min(cur + SlowDownStep, MaxInterval) ELSE cur

\* a loop that keeps polling after expired_token
ErrClassExpiredRetries(e) ==
    IF e \in {"authorization_pending", "slow_down", "expired_token"}
    THEN "retry"
    ELSE IF e \in {"access_denied", "invalid_grant"} THEN "rejected"
    ELSE "unexpected"

\* the branch of lines 120-131 an error code takes
ErrClass(e) ==
    IF e \in {"authorization_pending", "slow_down"} THEN "retry"
    ELSE IF e \in {"access_denied", "expired_token", "invalid_grant"}
         THEN "rejected"
    ELSE "unexpected"

\* lines 84-85
poll_begin(p) ==
    /\ pc[p] = "poll_begin"
    /\ began' = now
    /\ current_interval' = InitialInterval(interval)
    /\ Goto(p, "poll_check")
    /\ UNCHANGED <<args, tokens, fd, fs, http, interval, now, resp, took,
                   retries, fs0>>

\* the top of the loop, lines 87-90
poll_check(p) ==
    /\ pc[p] = "poll_check"
    /\ IF TimedOut(now, began)
       THEN Exit(p, 1, "TimeoutError")
       ELSE Goto(p, "poll_post")
    /\ UNCHANGED <<args, tokens, fd, fs, http, pollVars, fs0>>

\* requests.post(TOKEN_ENDPOINT, ...), lines 92-107, answered by one of
\* `responses`; the request takes time
PostToken(p, responses) ==
    /\ pc[p] = "poll_post"
    /\ \E r \in responses, d \in 0..MaxLatency :
          /\ resp' = r
          /\ took' = d
          /\ now' = now + d
    /\ http' = [http EXCEPT !.token = @ + 1]
    /\ Goto(p, "poll_handle")
    /\ UNCHANGED <<args, tokens, fd, fs, interval, current_interval, began,
                   retries, fs0>>

poll_post(p) == PostToken(p, PollResponses)

\* lines 110-131
poll_handle(p) ==
    /\ pc[p] = "poll_handle"
    /\ IF resp.status = 200 THEN
            IF resp.json
            THEN /\ tokens' = [tokens EXCEPT ![p] = resp.body]
                 /\ Goto(p, "save_open")
                 /\ UNCHANGED current_interval
            ELSE /\ Exit(p, 1, "JSONDecodeError")
                 /\ UNCHANGED <<tokens, current_interval>>
       ELSE IF ~resp.json THEN
            /\ Exit(p, 1, IF RaisesForStatus(resp.status)
                           THEN "HTTPError" ELSE "JSONDecodeError")
            /\ UNCHANGED <<tokens, current_interval>>
       ELSE LET e == GetOr(resp.body, "error", None) IN
            CASE ErrClass(e) = "retry" ->
                    /\ current_interval' = NextInterval(e, current_interval)
                    /\ Goto(p, "poll_sleep")
                    /\ UNCHANGED tokens
              [] ErrClass(e) = "rejected" ->
                    /\ Exit(p, 1, "Device flow failed")
                    /\ UNCHANGED <<tokens, current_interval>>
              [] OTHER ->
                    /\ Exit(p, 1, "Unexpected token response")
                    /\ UNCHANGED <<tokens, current_interval>>
    /\ UNCHANGED <<args, fd, fs, http, interval, began, now, resp, took,
                   retries, fs0>>

\* time.sleep(current_interval); continue, lines 124-125
poll_sleep(p) ==
    /\ pc[p] = "poll_sleep"
    /\ now' = now + current_interval
    /\ retries' = retries + 1
    /\ Goto(p, "poll_check")
    /\ UNCHANGED <<args, tokens, fd, fs, http, interval, current_interval,
                   began, resp, took, fs0>>

(***************************************************************************)
(* The process interrupt: KeyboardInterrupt, lines 376-378.  It may arrive *)
(* at any point of the run; an open file is closed on the way out, with    *)
(* what was written to it.                                                 *)
(***************************************************************************)
Running(p) == pc[p] \notin {"idle", "done"}

interrupt(p) ==
    /\ Running(p)
    /\ fd' = [fd EXCEPT ![p] = NoFd]
    /\ Exit(p, 1, "KeyboardInterrupt")
    /\ UNCHANGED <<args, tokens, fs, http, pollVars, fs0>>

(***************************************************************************)
(* One invocation of the script.                                           *)
(***************************************************************************)
NoHttp == [device |-> 0, token |-> 0, refresh |-> 0, revocation |-> 0]

\* a token file written by an earlier run
SavedFile(d) == [id |-> 0, data |-> Serialize(d), mode |-> OwnerOnly]
\* a token file that is not JSON
CorruptFile == [id |-> 0, data |-> << <<"access_token", "a0">> >>, mode |-> OwnerOnly]

InitialFiles ==
    {[n \in Paths |-> IF n = DEFAULT_TOKENS_PATH THEN f ELSE NoFile] :
        f \in {NoFile, SavedFile(TokOld), SavedFile(TokNoRt), CorruptFile}}

InitCommon ==
    /\ fd = [p \in Procs |-> NoFd]
    /\ exit_code = [p \in Procs |-> -1]
    /\ err = [p \in Procs |-> ""]
    /\ fs \in InitialFiles
    /\ fs0 = fs
    /\ current_interval = 0
    /\ began = 0
    /\ now = 0
    /\ resp = NoResp
    /\ took = 0
    /\ retries = 0

Init ==
    /\ InitCommon
    /\ pc = [p \in Procs |-> IF p = Main THEN "main" ELSE "idle"]
    /\ \E a \in ArgSets : args = [p \in Procs |-> IF p = Main THEN a ELSE NoArgs]
    /\ tokens = [p \in Procs |-> <<>>]
    /\ http = NoHttp
    /\ interval = 0

Next ==
    \E p \in Procs :
        \/ revoke(p)
        \/ load_tokens(p)
        \/ refresh_with_rt(p)
        \/ start_device_flow(p)
        \/ poll_begin(p)
        \/ poll_check(p)
        \/ poll_post(p)
        \/ poll_handle(p)
        \/ poll_sleep(p)
        \/ save_open(p)
        \/ save_write(p)
        \/ save_chmod(p)
        \/ save_replace(p)
        \/ interrupt(p)

Spec == Init /\ [][Next]_vars

(***************************************************************************)
(* poll_token_endpoint against a provider that never grants and never      *)
(* refuses: the run has its device code and enters the loop, every answer  *)
(* is authorization_pending or slow_down, and nobody interrupts.  The      *)
(* script runs on: its steps are weakly fair.                              *)
(***************************************************************************)
RetryResponses ==
    Response({400}, {Json(ErrorBody(e)) :
                        e \in {"authorization_pending", "slow_down"}})

poll_post_retry(p) == PostToken(p, RetryResponses)

InitEndless ==
    /\ InitCommon
    /\ pc = [p \in Procs |-> IF p = Main THEN "poll_begin" ELSE "idle"]
    /\ args = [p \in Procs |->
                 IF p = Main THEN Arg("new", None, None) ELSE NoArgs]
    /\ tokens = [p \in Procs |-> <<>>]
    /\ http = [NoHttp EXCEPT !.device = 1]
    /\ interval \in ServerIntervals \cup {DefaultInterval}

NextEndless ==
    \E p \in Procs :
        \/ poll_begin(p)
        \/ poll_check(p)
        \/ poll_post_retry(p)
        \/ poll_handle(p)
        \/ poll_sleep(p)

SpecEndless == InitEndless /\ [][NextEndless]_vars /\ WF_vars(NextEndless)

(***************************************************************************)
(* poll_token_endpoint against any provider: the run has its device code   *)
(* and enters the loop, every answer is possible, nobody interrupts, and   *)
(* the run is followed until the loop returns or raises.                   *)
(***************************************************************************)
NextPoll ==
    \E p \in Procs :
        \/ poll_begin(p)
        \/ poll_check(p)
        \/ poll_post(p)
        \/ poll_handle(p)
        \/ poll_sleep(p)

SpecPoll == InitEndless /\ [][NextPoll]_vars /\ WF_vars(NextPoll)

(***************************************************************************)
(* Two invocations that have each obtained a TokenSet and now run          *)
(* save_tokens on the same path, their system calls interleaved.           *)
(***************************************************************************)
InitRace ==
    /\ InitCommon
    /\ pc = [p \in Procs |-> "save_open"]
    /\ args = [p \in Procs |-> Arg("refresh", "r9", None)]
    /\ tokens \in [Procs -> TokenBodies]
    /\ http = [NoHttp EXCEPT !.refresh = Cardinality(Procs)]
    /\ interval = 0

NextRace ==
    \E p \in Procs :
        \/ save_open(p)
        \/ save_write(p)
        \/ save_chmod(p)
        \/ save_replace(p)

SpecRace == InitRace /\ [][NextRace]_vars

(***************************************************************************)
(* Properties.                                                             *)
(***************************************************************************)
File == args[Main].file
Interrupted == err[Main] = "KeyboardInterrupt"
\* the error code of a non-200 JSON answer, None otherwise
RespError ==
    IF resp.status # 200 /\ resp.json THEN GetOr(resp.body, "error", None)
    ELSE None
Handling == pc[Main] = "poll_handle"
GroupOther == {"gr", "gw", "or", "ow"}

\* C1: every slow_down answer raises the poll interval by exactly 5, or to 30
\* when that would pass 30, and the interval after it is never smaller than
\* the interval before it, whatever interval the server suggested.
C1_SlowDownNeverLowers ==
    [][(Handling /\ RespError = "slow_down" /\ ~Interrupted')
         => /\ current_interval' =
                 (IF current_interval + 5 > 30 THEN 30 ELSE current_interval + 5)
            /\ current_interval' >= current_interval]_vars

\* C2: an authorization_pending answer leaves the interval unchanged, keeps
\* the loop polling, and is followed by a sleep of exactly the current
\* interval before the next iteration starts (unless the run is interrupted).
C2_PendingKeepsInterval ==
    [][/\ (Handling /\ RespError = "authorization_pending" /\ ~Interrupted')
           => /\ pc'[Main] = "poll_sleep"
              /\ current_interval' = current_interval
              /\ now' = now
              /\ http' = http
       /\ (pc[Main] = "poll_sleep" /\ RespError = "authorization_pending"
              /\ ~Interrupted')
           => /\ pc'[Main] = "poll_check"
              /\ now' = now + current_interval
              /\ current_interval' = current_interval
              /\ http' = http]_vars

C2_Witness ==
    /\ pc[Main] = "poll_check"
    /\ RespError = "authorization_pending"
    /\ retries >= 2
    /\ now - began >= 2 * current_interval

\* C3: an access_denied, expired_token or invalid_grant answer ends polling
\* at once with the rejection error: no sleep and no request follows it, and
\* the run has written no file.
C3_RejectionEndsPolling ==
    [][/\ (Handling /\ RespError \in {"access_denied", "expired_token",
                                       "invalid_grant"})
           => /\ pc'[Main] = "done"
              /\ exit_code'[Main] = 1
              /\ err'[Main] \in {"Device flow failed", "KeyboardInterrupt"}
              /\ now' = now
              /\ http' = http
              /\ fs' = fs
              /\ fs = fs0
       /\ (err[Main] = "Device flow failed")
           => /\ pc[Main] = "done"
              /\ UNCHANGED <<now, http, fs>>]_vars

C3_Witness ==
    /\ err[Main] = "Device flow failed"
    /\ RespError = "expired_token"
    /\ retries >= 2
    /\ http.token = retries + 1

\* C4 as stated: against answers that are all authorization_pending or
\* slow_down, no token request is sent once more than timeout_seconds have
\* passed since the loop began, and the loop ends with the timeout error no
\* later than one poll interval after timeout_seconds.
C4_SlackOneInterval ==
    /\ pc[Main] = "poll_post" => now - began <= timeout_seconds
    /\ err[Main] = "TimeoutError"
         => now - began <= timeout_seconds + current_interval

\* C4, amended: against answers that are all authorization_pending or
\* slow_down the loop ends with the timeout error; it sends no token request
\* once more than timeout_seconds have passed since it began; and it ends no
\* later than timeout_seconds plus one poll interval plus the time its last
\* token request took.
C4_SlackIntervalAndRequest ==
    /\ [](pc[Main] = "poll_post" => now - began <= timeout_seconds)
    /\ [](err[Main] = "TimeoutError"
            => /\ now - began > timeout_seconds
               /\ now - began <= timeout_seconds + current_interval + took)
    /\ <>(err[Main] = "TimeoutError")

C4_Witness ==
    /\ err[Main] = "TimeoutError"
    /\ retries >= 2
    /\ took > 0
    /\ now - began > timeout_seconds + current_interval

\* C5: a new run that ends well has sent one token request more than the
\* number of authorization_pending/slow_down answers it got, its result is
\* the body of the 200 answer, and that body is what the file at --file holds.
C5_NewSavesPolledTokens ==
    (args[Main].action = "new" /\ exit_code[Main] = 0)
        => /\ resp.status = 200
           /\ http.device = 1
           /\ http.token = retries + 1
           /\ tokens[Main] = resp.body
           /\ Exists(fs[File])
           /\ WellFormed(fs[File].data)
           /\ Parse(fs[File].data) = resp.body

C5_Witness ==
    /\ args[Main].action = "new"
    /\ exit_code[Main] = 0
    /\ retries = 2
    /\ current_interval = 5
    /\ resp.body = TokA

\* C6: while save_tokens runs, the target path holds what it held before the
\* run or the complete new TokenSet, never a part of it; and once save_tokens
\* has returned, the file at the target path grants nothing to group or other.
C6_TargetNeverPartial ==
    /\ \/ fs[File] = fs0[File]
       \/ /\ Exists(fs[File])
          /\ fs[File].data = Serialize(tokens[Main])
    /\ (exit_code[Main] = 0 /\ args[Main].action \in {"new", "refresh"})
         => /\ Exists(fs[File])
            /\ fs[File].data = Serialize(tokens[Main])
            /\ fs[File].mode \cap GroupOther = {}

C6_Witness ==
    /\ exit_code[Main] = 0
    /\ args[Main].action = "refresh"
    /\ Exists(fs0[File])
    /\ fs[File] # fs0[File]

\* the pieces of the TokenSet being saved
TokenPieces == {tokens[Main][i] : i \in 1..Len(tokens[Main])}
HoldsTokenData(f) ==
    Exists(f) /\ \E i \in 1..Len(f.data) : f.data[i] \in TokenPieces

\* C7: in every state of save_tokens, every file that holds part or all of
\* the TokenSet, the temporary file included, is accessible to its owner only.
C7_TokenDataOwnerOnly ==
    pc[Main] \in {"save_write", "save_chmod", "save_replace"}
        => \A n \in Paths :
              HoldsTokenData(fs[n]) => fs[n].mode \cap GroupOther = {}

\* C8: a run stopped by a process interrupt leaves no partially written
\* token file, neither at the target path nor at the temporary path.
PartlyWritten(f) == Exists(f) /\ f.data # <<>> /\ ~WellFormed(f.data)

C8_InterruptLeavesNoPartialFile ==
    Interrupted
        => \A n \in Paths : fs[n] = fs0[n] \/ ~PartlyWritten(fs[n])

\* C9: when two invocations save to the same path, both saves complete
\* without error and the target ends up holding the complete TokenSet of one
\* of them, however their steps interleave.
C9_BothSavesComplete ==
    (\A p \in Procs : pc[p] = "done")
        => /\ \A p \in Procs : exit_code[p] = 0
           /\ \E p \in Procs : fs[File].data = Serialize(tokens[p])

\* C10: a refresh run whose answer is not HTTP 200 fails with the refresh
\* error after exactly one request, exits non-zero and leaves both paths as
\* they were.
C10_RefreshFailureWritesNothing ==
    (args[Main].action = "refresh" /\ http.refresh >= 1 /\ resp.status # 200)
        => /\ pc[Main] = "done"
           /\ err[Main] = "Refresh failed"
           /\ exit_code[Main] = 1
           /\ http = [NoHttp EXCEPT !.refresh = 1]
           /\ fs = fs0

C10_Witness ==
    /\ err[Main] = "Refresh failed"
    /\ ~Truthy(args[Main].token)
    /\ RespError = "invalid_grant"
    /\ fs0[File] = SavedFile(TokOld)

\* the TokenSet a file holds, the empty dict when it holds none
Stored(f) == IF Exists(f) /\ WellFormed(f.data) THEN Parse(f.data) ELSE <<>>

(***************************************************************************)
(* save_tokens followed by load_tokens: one invocation saves a payload,    *)
(* a second one loads the file once the save has returned and saves what   *)
(* it loaded.                                                              *)
(***************************************************************************)
TokFull == << <<"access_token", "a3">>, <<"id_token", "i3">>,
              <<"refresh_expires_in", "0">>, <<"session_state", "s3">>,
              <<"refresh_token", "r3">>, <<"not-before-policy", "0">> >>
Payloads == {<<>>, TokA, TokB, TokOld, TokNoRt, TokFull}
Loader == 2

\* load_tokens(path), lines 144-146, called once the save has returned
load_after_save(p) ==
    /\ pc[p] = "load"
    /\ pc[Main] = "done"
    /\ LET f == fs[args[p].file] IN
       IF ~Exists(f) THEN
            /\ Exit(p, 1, "FileNotFoundError")
            /\ UNCHANGED tokens
       ELSE IF ~WellFormed(f.data) THEN
            /\ Exit(p, 1, "JSONDecodeError")
            /\ UNCHANGED tokens
       ELSE /\ tokens' = [tokens EXCEPT ![p] = Parse(f.data)]
            /\ Goto(p, "save_open")
    /\ UNCHANGED <<args, fd, fs, http, pollVars, fs0>>

InitRoundTrip ==
    /\ InitCommon
    /\ pc = [p \in Procs |-> IF p = Main THEN "save_open" ELSE "load"]
    /\ args = [p \in Procs |-> Arg("new", None, None)]
    /\ \E d \in Payloads : tokens = [p \in Procs |-> IF p = Main THEN d ELSE <<>>]
    /\ http = NoHttp
    /\ interval = 0

NextRoundTrip ==
    \E p \in Procs :
        \/ save_open(p)
        \/ save_write(p)
        \/ save_chmod(p)
        \/ save_replace(p)
        \/ load_after_save(p)

SpecRoundTrip == InitRoundTrip /\ [][NextRoundTrip]_vars

\* equality of dicts, key order ignored
SameDict(d, e) ==
    /\ Keys(d) = Keys(e)
    /\ \A k \in Keys(d) : GetOr(d, k, None) = GetOr(e, k, None)

C11_RefreshKeepsOmittedFields ==
    (args[Main].action = "refresh" /\ exit_code[Main] = 0)
        => LET saved == Stored(fs[File])
               prior == Stored(fs0[File])
           IN  /\ \A k \in Keys(resp.body) :
                     /\ Has(saved, k)
                     /\ GetOr(saved, k, None) = GetOr(resp.body, k, None)
               /\ \A k \in Keys(prior) \ Keys(resp.body) :
                     /\ Has(saved, k)
                     /\ GetOr(saved, k, None) = GetOr(prior, k, None)

Done == pc[Main] = "done"
Action == args[Main].action
\* the run did what was asked: the revocation was accepted, or the TokenSet
\* of a 200 answer is saved at --file
Succeeded ==
    IF Action = "revoke" THEN http.revocation = 1 /\ resp.status = 200
    ELSE /\ resp.status = 200
         /\ resp.json
         /\ Exists(fs[File])
         /\ fs[File].data = Serialize(tokens[Main])
RevokeUsageError ==
    /\ Action = "revoke"
    /\ ~Truthy(args[Main].token) \/ ~Truthy(args[Main].access_token)
\* refresh from a token file that holds a TokenSet without refresh_token
FileLacksRefreshToken ==
    /\ Action = "refresh"
    /\ ~Truthy(args[Main].token)
    /\ Exists(fs0[File])
    /\ WellFormed(fs0[File].data)
    /\ ~Truthy(GetOr(Parse(fs0[File].data), "refresh_token", None))

\* C12 as stated: a run that is not interrupted ends with 0 exactly when the action succeeded, with 2
\* exactly when revoke lacks --token or --access-token (and then no request is
\* sent), and with 1 on every operational failure, a token file without
\* refresh_token included.
C12_ExitCodes ==
    (Done /\ ~Interrupted)
        => /\ exit_code[Main] = 0 <=> Succeeded
           /\ exit_code[Main] = 2 <=> RevokeUsageError
           /\ RevokeUsageError => http = NoHttp
           /\ (~Succeeded /\ ~RevokeUsageError) => exit_code[Main] = 1

\* C12, amended: a run that is not interrupted ends with 0 exactly when the action succeeded, with 2
\* exactly when revoke lacks --token or --access-token or when refresh reads
\* a token file that holds no refresh_token (in both cases no request is
\* sent), and with 1 on every other operational failure.
C12_ExitCodesAmended ==
    (Done /\ ~Interrupted)
        => /\ exit_code[Main] = 0 <=> Succeeded
           /\ exit_code[Main] = 2 <=> (RevokeUsageError \/ FileLacksRefreshToken)
           /\ exit_code[Main] = 2 => http = NoHttp
           /\ (~Succeeded /\ ~RevokeUsageError /\ ~FileLacksRefreshToken)
                => /\ exit_code[Main] = 1
                   /\ err[Main] # ""

C12_Witness ==
    /\ Done
    /\ FileLacksRefreshToken
    /\ exit_code[Main] = 2

\* C13: a run cancelled by a process interrupt exits with a non-zero status
\* that no other outcome uses: not 0 (success), not 1 (operational failure),
\* not 2 (usage error).
C13_InterruptStatusDistinct ==
    Interrupted => exit_code[Main] \notin {0, 1, 2}

\* C14: a revoke run with both tokens sends exactly one revocation request,
\* ends with 0 if and only if the answer's status is 200 and with 1 and the
\* failure report for every other status, and never reads or writes the
\* token file.
C14_RevokeOnce ==
    (Done /\ Action = "revoke" /\ ~RevokeUsageError /\ ~Interrupted)
        => /\ http = [NoHttp EXCEPT !.revocation = 1]
           /\ exit_code[Main] = 0 <=> resp.status = 200
           /\ exit_code[Main] = 1 <=> resp.status # 200
           /\ resp.status # 200 => err[Main] = "Failed to revoke token"
           /\ tokens[Main] = <<>>
           /\ fs = fs0

C14_Witness ==
    /\ Done
    /\ Action = "revoke"
    /\ resp.status = 204
    /\ exit_code[Main] = 1

\* the exceptions whose message holds the HTTP status: the RuntimeError of
\* lines 130-131 and the HTTPError of raise_for_status, line 116; the decode
\* error re-raised on line 117 holds none
CarriesStatus(e) == e \in {"Unexpected token response", "HTTPError"}

\* a non-200 answer that is neither a retry nor a rejection
OtherAnswer ==
    /\ resp.status # 200
    /\ \/ ~resp.json
       \/ GetOr(resp.body, "error", None) \notin
             {"authorization_pending", "slow_down", "access_denied",
              "expired_token", "invalid_grant"}

\* C16: a non-200 answer that is not a JSON body with one of the five known
\* error codes, whatever its status, ends the loop at once in a failure that
\* carries the status: no sleep and no request follows.
C16_OtherAnswerFailsWithStatus ==
    [][(Handling /\ OtherAnswer /\ ~Interrupted')
         => /\ pc'[Main] = "done"
            /\ exit_code'[Main] = 1
            /\ CarriesStatus(err'[Main])
            /\ now' = now
            /\ http' = http]_vars

\* the device-authorization request was answered with a non-2xx status
DeviceRefused ==
    /\ Action = "new"
    /\ http.device = 1
    /\ http.token = 0
    /\ resp.status < 200 \/ resp.status > 299

\* C17: when the device-authorization request gets a non-2xx answer the new
\* run has failed at once: it is over with a non-zero status, and no request
\* and no file change follows.
C17_DeviceRefusalIsFatal ==
    [][DeviceRefused
         => /\ Done
            /\ exit_code[Main] # 0
            /\ UNCHANGED <<http, fs>>]_vars

PollPcs == {"poll_check", "poll_post", "poll_handle", "poll_sleep"}
\* the interval of the device-authorization answer, 0 when it has none
Suggested == GetOr(resp.body, "interval", 0)

\* C18: the loop starts with interval = max(5, suggested interval), 5 when the
\* server omits the interval or suggests 0; the interval of every sleep is at
\* least 5, and at most 30 once a slow_down answer has been handled.
C18_IntervalBounds ==
    /\ []((pc[Main] = "poll_check" /\ http.token = 0)
            => current_interval = (IF Suggested > 5 THEN Suggested ELSE 5))
    /\ [](pc[Main] \in PollPcs => current_interval >= 5)
    /\ [][(Handling /\ RespError = "slow_down" /\ ~Interrupted')
            => current_interval' <= 30]_vars
    /\ [][(pc[Main] \in PollPcs /\ current_interval <= 30)
            => current_interval' <= 30]_vars

C18_Witness ==
    /\ pc[Main] = "poll_sleep"
    /\ RespError = "slow_down"
    /\ interval = 0
    /\ current_interval = 15
    /\ retries = 1

\* how poll_token_endpoint ended
PollSuccess ==
    /\ pc[Main] = "save_open"
    /\ resp.status = 200
    /\ tokens[Main] = resp.body
PollRejected == Done /\ err[Main] = "Device flow failed"
PollTimeout == Done /\ err[Main] = "TimeoutError"
PollFatal ==
    Done /\ err[Main] \in {"Unexpected token response", "HTTPError",
                           "JSONDecodeError"}
PollOutcomes ==
    {o \in {"SUCCESS", "rejected", "fatal", "timeout"} :
        \/ o = "SUCCESS" /\ PollSuccess
        \/ o = "rejected" /\ PollRejected
        \/ o = "fatal" /\ PollFatal
        \/ o = "timeout" /\ PollTimeout}

\* C19: whatever the token endpoint answers, poll_token_endpoint ends, in
\* exactly one of SUCCESS, rejected, fatal and timeout, and it sends at most
\* floor(timeout_seconds / 5) + 1 token requests.
C19_PollTerminates ==
    /\ <>(PollOutcomes # {})
    /\ [](pc[Main] \notin PollPcs \cup {"poll_begin"}
            => Cardinality(PollOutcomes) = 1)
    /\ [](pc[Main] \in PollPcs \cup {"poll_begin"} => PollOutcomes = {})
    /\ [](http.token <= (timeout_seconds \div 5) + 1)

C19_Witness ==
    /\ PollTimeout
    /\ http.token = (timeout_seconds \div 5) + 1
    /\ retries = http.token

SavePcs == {"save_open", "save_write", "save_chmod", "save_replace"}
\* the run ended in a rejection, a timeout, an unexpected answer, a load
\* error, a refused request or a usage error
FailedRun ==
    /\ Done
    /\ \/ err[Main] \in {"Device flow failed", "TimeoutError",
                          "Unexpected token response", "HTTPError",
                          "JSONDecodeError", "KeyError", "FileNotFoundError",
                          "Refresh failed", "Failed to revoke token"}
       \/ exit_code[Main] = 2

\* C20: save_tokens is called at most once in a run, only after a new or a
\* refresh run got its 200 answer, and nothing but the end of the run follows
\* it; nothing else writes a file; and a run that ends in a failure or a usage
\* error leaves the file system as it found it.
C20_SaveOnlyAfterSuccess ==
    /\ [](pc[Main] \in SavePcs
            => /\ Action \in {"new", "refresh"}
               /\ resp.status = 200
               /\ resp.json)
    /\ [][(pc'[Main] = "save_open" /\ pc[Main] # "save_open")
            => /\ pc[Main] \in {"main", "refresh_post", "poll_handle"}
               /\ fs = fs0]_vars
    /\ [][pc[Main] \in SavePcs => pc'[Main] \in SavePcs \cup {"done"}]_vars
    /\ [][fs' # fs => pc[Main] \in SavePcs]_vars
    /\ [](FailedRun => fs = fs0)

C20_Witness ==
    /\ Done
    /\ Action = "new"
    /\ exit_code[Main] = 0
    /\ fs[File].id = Main
    /\ ~Exists(fs[TmpPath(File)])
    /\ Exists(fs0[File])

====
